---- MODULE Spec2Model ----
(***************************************************************************)
(* Model of ExcryptDecrypt.py: the two-shift substitution cipher           *)
(* (encrypt_character / decrypt_character), the file-level wrappers, the   *)
(* two verification functions and the main program.                        *)
(*                                                                         *)
(* Characters are modelled by their code points (ord), texts by sequences  *)
(* of code points, a file by the text it holds.                            *)
(***************************************************************************)
EXTENDS Integers, Sequences, FiniteSets, TLC

VARIABLES shift1, shift2,          \* the two integer shifts
          ch, out, op, fallback,   \* one character-level call and its result
          raw_text, encrypted_text, decrypted_text,   \* contents of the three files
          roundtrip_ok,            \* result of verify_roundtrip ("unset" before)
          strict_ok, mismatches,   \* result of verify_strict ("unset", <<>> before)
          report_mismatches,       \* the cap handed to verify_strict
          pc                       \* position of the running program

vars == <<shift1, shift2, ch, out, op, fallback, raw_text, encrypted_text,
          decrypted_text, roundtrip_ok, strict_ok, mismatches,
          report_mismatches, pc>>

----------------------------------------------------------------------------
(* Bounds *)

MaxShift == 13
LargeShift == 1000
MaxLen == 2
MaxCap == 2

(* Program constants *)

ord_a == 97
ord_m == 109
ord_z == 122
ord_A == 65
ord_M == 77
ord_Z == 90
AlphabetSize == 26
DefaultReportMismatches == 5

\* every residue mod 26, negative values, and two values far beyond 26
Shifts == (-MaxShift .. MaxShift) \cup {LargeShift, -LargeShift}

LowerLetters == ord_a .. ord_z
UpperLetters == ord_A .. ord_Z
Letters == LowerLetters \cup UpperLetters
\* space ! 0 9 @ [ ` { e-acute, newline, Greek alpha
NonLetters == {32, 33, 48, 57, 64, 91, 96, 123, 233, 10, 945}
Chars == Letters \cup NonLetters

\* characters the bounded texts are built from: E T C a n !
TextChars == {69, 84, 67, 97, 110, 33}

RECURSIVE TextsOfLen(_)
TextsOfLen(n) ==
    IF n = 0 THEN {<<>>}
    ELSE {Append(t, c) : t \in TextsOfLen(n - 1), c \in TextChars}

Texts == UNION {TextsOfLen(n) : n \in 0 .. MaxLen}

\* texts for verify_strict, where only equality of characters matters: a b
StrictChars == {97, 98}

RECURSIVE StrictTextsOfLen(_)
StrictTextsOfLen(n) ==
    IF n = 0 THEN {<<>>}
    ELSE {Append(t, c) : t \in StrictTextsOfLen(n - 1), c \in StrictChars}

StrictTexts == UNION {StrictTextsOfLen(n) : n \in 0 .. (MaxLen + 1)}

----------------------------------------------------------------------------
(* Python's % on integers: the result has the sign of the (positive)       *)
(* divisor, so it is always in 0 .. n-1.                                    *)
PyMod(a, n) == ((a % n) + n) % n

(* encrypt_character with the A-M/a-m boundary off by one (ch < 'm') *)
encrypt_character_boundary(c, s1, s2) ==
    IF ord_a <= c /\ c <= ord_z
    THEN IF c < ord_m
         THEN PyMod(c - ord_a + PyMod(s1 * s2, AlphabetSize), AlphabetSize) + ord_a
         ELSE PyMod(c - ord_a - PyMod(s1 + s2, AlphabetSize), AlphabetSize) + ord_a
    ELSE IF ord_A <= c /\ c <= ord_Z
    THEN IF c < ord_M
         THEN PyMod(c - ord_A - PyMod(s1, AlphabetSize), AlphabetSize) + ord_A
         ELSE PyMod(c - ord_A + PyMod(s2 * s2, AlphabetSize), AlphabetSize) + ord_A
    ELSE c

(* encrypt_character with N-Z moved forward by shift2 instead of shift2^2 *)
encrypt_character_nosquare(c, s1, s2) ==
    IF ord_a <= c /\ c <= ord_z
    THEN IF c <= ord_m
         THEN PyMod(c - ord_a + PyMod(s1 * s2, AlphabetSize), AlphabetSize) + ord_a
         ELSE PyMod(c - ord_a - PyMod(s1 + s2, AlphabetSize), AlphabetSize) + ord_a
    ELSE IF ord_A <= c /\ c <= ord_Z
    THEN IF c <= ord_M
         THEN PyMod(c - ord_A - PyMod(s1, AlphabetSize), AlphabetSize) + ord_A
         ELSE PyMod(c - ord_A + PyMod(s2, AlphabetSize), AlphabetSize) + ord_A
    ELSE c

(* encrypt_character with A-M moved forward instead of backward *)
encrypt_character_forward(c, s1, s2) ==
    IF ord_a <= c /\ c <= ord_z
    THEN IF c <= ord_m
         THEN PyMod(c - ord_a + PyMod(s1 * s2, AlphabetSize), AlphabetSize) + ord_a
         ELSE PyMod(c - ord_a - PyMod(s1 + s2, AlphabetSize), AlphabetSize) + ord_a
    ELSE IF ord_A <= c /\ c <= ord_Z
    THEN IF c <= ord_M
         THEN PyMod(c - ord_A + PyMod(s1, AlphabetSize), AlphabetSize) + ord_A
         ELSE PyMod(c - ord_A + PyMod(s2 * s2, AlphabetSize), AlphabetSize) + ord_A
    ELSE c

(* encrypt_character with the range tests merged into 'A' <= ch <= 'z', so *)
(* the six characters between 'Z' and 'a' take the lowercase rule           *)
encrypt_character_range(c, s1, s2) ==
    IF ord_A <= c /\ c <= ord_Z
    THEN IF c <= ord_M
         THEN PyMod(c - ord_A - PyMod(s1, AlphabetSize), AlphabetSize) + ord_A
         ELSE PyMod(c - ord_A + PyMod(s2 * s2, AlphabetSize), AlphabetSize) + ord_A
    ELSE IF ord_A <= c /\ c <= ord_z
    THEN IF c <= ord_m
         THEN PyMod(c - ord_a + PyMod(s1 * s2, AlphabetSize), AlphabetSize) + ord_a
         ELSE PyMod(c - ord_a - PyMod(s1 + s2, AlphabetSize), AlphabetSize) + ord_a
    ELSE c

(* encrypt_character(ch, shift1, shift2) *)
encrypt_character(c, s1, s2) ==
    IF ord_a <= c /\ c <= ord_z
    THEN IF c <= ord_m
         THEN PyMod(c - ord_a + PyMod(s1 * s2, AlphabetSize), AlphabetSize) + ord_a
         ELSE PyMod(c - ord_a - PyMod(s1 + s2, AlphabetSize), AlphabetSize) + ord_a
    ELSE IF ord_A <= c /\ c <= ord_Z
    THEN IF c <= ord_M
         THEN PyMod(c - ord_A - PyMod(s1, AlphabetSize), AlphabetSize) + ord_A
         ELSE PyMod(c - ord_A + PyMod(s2 * s2, AlphabetSize), AlphabetSize) + ord_A
    ELSE c

(* the value of the scan when the loop runs out of candidates *)
NoCandidate == -1

(* for i in range(26): cand = chr(base + i); return cand if it encrypts to  *)
(* ch.  scan(c, s1, s2, base, i) is the loop from iteration i on.           *)
RECURSIVE scan(_, _, _, _, _)
scan(c, s1, s2, base, i) ==
    IF i >= AlphabetSize THEN NoCandidate
    ELSE IF encrypt_character(base + i, s1, s2) = c THEN base + i
    ELSE scan(c, s1, s2, base, i + 1)

(* the same loop run from the last candidate down to the first *)
RECURSIVE scan_down(_, _, _, _, _)
scan_down(c, s1, s2, base, i) ==
    IF i < 0 THEN NoCandidate
    ELSE IF encrypt_character(base + i, s1, s2) = c THEN base + i
    ELSE scan_down(c, s1, s2, base, i - 1)

(* decrypt_character returning the highest-offset candidate *)
decrypt_character_last(c, s1, s2) ==
    IF ord_a <= c /\ c <= ord_z
    THEN LET cand == scan_down(c, s1, s2, ord_a, AlphabetSize - 1)
         IN  IF cand # NoCandidate THEN cand ELSE c
    ELSE IF ord_A <= c /\ c <= ord_Z
    THEN LET cand == scan_down(c, s1, s2, ord_A, AlphabetSize - 1)
         IN  IF cand # NoCandidate THEN cand ELSE c
    ELSE c

(* decrypt_character whose uppercase loop builds its candidates from 'a' *)
decrypt_character_copied(c, s1, s2) ==
    IF ord_a <= c /\ c <= ord_z
    THEN LET cand == scan(c, s1, s2, ord_a, 0)
         IN  IF cand # NoCandidate THEN cand ELSE c
    ELSE IF ord_A <= c /\ c <= ord_Z
    THEN LET cand == scan(c, s1, s2, ord_a, 0)
         IN  IF cand # NoCandidate THEN cand ELSE c
    ELSE c

(* decrypt_character(ch, shift1, shift2) *)
decrypt_character(c, s1, s2) ==
    IF ord_a <= c /\ c <= ord_z
    THEN LET cand == scan(c, s1, s2, ord_a, 0)
         IN  IF cand # NoCandidate THEN cand ELSE c      \* line 39
    ELSE IF ord_A <= c /\ c <= ord_Z
    THEN LET cand == scan(c, s1, s2, ord_A, 0)
         IN  IF cand # NoCandidate THEN cand ELSE c      \* line 46
    ELSE c

(* TRUE iff decrypt_character leaves through one of its two               *)
(* 'return ch  # shouldn't happen' lines                                    *)
decrypt_fallback(c, s1, s2) ==
    \/ ord_a <= c /\ c <= ord_z /\ scan(c, s1, s2, ord_a, 0) = NoCandidate
    \/ ord_A <= c /\ c <= ord_Z /\ scan(c, s1, s2, ord_A, 0) = NoCandidate

(* "".join(encrypt_character(ch, shift1, shift2) for ch in text) *)
encrypt_text(text, s1, s2) ==
    [i \in 1 .. Len(text) |-> encrypt_character(text[i], s1, s2)]

(* "".join(decrypt_character(ch, shift1, shift2) for ch in cipher) *)
decrypt_text(cipher, s1, s2) ==
    [i \in 1 .. Len(cipher) |-> decrypt_character(cipher[i], s1, s2)]

(* verify_roundtrip(encrypted_file, shift1, shift2) on the file's text *)
verify_roundtrip(cipher, s1, s2) ==
    encrypt_text(decrypt_text(cipher, s1, s2), s1, s2) = cipher

(* a (index, original_char, decrypted_char) mismatch, index zero-based *)
PositionRecord(i, expected, actual) ==
    [kind |-> "position", index |-> i, expected |-> expected, actual |-> actual]

(* the ("length", len(original), len(decrypted)) hint *)
LengthRecord(lenOriginal, lenDecrypted) ==
    [kind |-> "length", expected |-> lenOriginal, actual |-> lenDecrypted]

(* Python's min on two integers *)
Min(a, b) == IF a <= b THEN a ELSE b

(* for i in range(n): append a record on a mismatch, break once the list   *)
(* has reached the cap.  collect(..., i, acc) is the loop from index i on. *)
RECURSIVE collect(_, _, _, _, _, _)
collect(original, decrypted, cap, n, i, acc) ==
    IF i >= n THEN acc
    ELSE IF original[i + 1] # decrypted[i + 1]
    THEN LET acc2 == Append(acc, PositionRecord(i, original[i + 1], decrypted[i + 1]))
         IN  IF Len(acc2) >= cap THEN acc2
             ELSE collect(original, decrypted, cap, n, i + 1, acc2)
    ELSE collect(original, decrypted, cap, n, i + 1, acc)

(* verify_strict(original_file, decrypted_file, report_mismatches) on the  *)
(* two files' texts; returns (ok, mismatches)                               *)
verify_strict(original, decrypted, cap) ==
    IF original = decrypted
    THEN [ok |-> TRUE, mismatches |-> <<>>]
    ELSE LET n == Min(Len(original), Len(decrypted))
             found == collect(original, decrypted, cap, n, 0, <<>>)
         IN  [ok |-> FALSE,
              mismatches |->
                IF Len(found) < cap /\ Len(original) # Len(decrypted)
                THEN Append(found, LengthRecord(Len(original), Len(decrypted)))
                ELSE found]

----------------------------------------------------------------------------
(* Character-level calls: one character, any shifts *)

InitChar ==
    /\ shift1 \in Shifts
    /\ shift2 \in Shifts
    /\ ch \in Chars
    /\ out = "unset"
    /\ op = "none"
    /\ fallback = FALSE
    /\ raw_text = <<>>
    /\ encrypted_text = <<>>
    /\ decrypted_text = <<>>
    /\ roundtrip_ok = "unset"
    /\ strict_ok = "unset"
    /\ mismatches = <<>>
    /\ report_mismatches = DefaultReportMismatches
    /\ pc = "char"

EncryptChar ==
    /\ pc = "char"
    /\ out' = encrypt_character(ch, shift1, shift2)
    /\ op' = "encrypt"
    /\ fallback' = FALSE
    /\ UNCHANGED <<shift1, shift2, ch, raw_text, encrypted_text, decrypted_text,
                   roundtrip_ok, strict_ok, mismatches, report_mismatches, pc>>

DecryptChar ==
    /\ pc = "char"
    /\ out' = decrypt_character(ch, shift1, shift2)
    /\ op' = "decrypt"
    /\ fallback' = decrypt_fallback(ch, shift1, shift2)
    /\ UNCHANGED <<shift1, shift2, ch, raw_text, encrypted_text, decrypted_text,
                   roundtrip_ok, strict_ok, mismatches, report_mismatches, pc>>

NextChar == EncryptChar \/ DecryptChar

SpecChar == InitChar /\ [][NextChar]_vars

----------------------------------------------------------------------------
(* The main program: encrypt_file, decrypt_file, verify_roundtrip,         *)
(* verify_strict with its default cap                                       *)

NoCharCall ==
    /\ ch = 0
    /\ out = "unset"
    /\ op = "none"
    /\ fallback = FALSE

Init ==
    /\ shift1 \in Shifts
    /\ shift2 \in Shifts
    /\ NoCharCall
    /\ raw_text \in Texts
    /\ encrypted_text = <<>>
    /\ decrypted_text = <<>>
    /\ roundtrip_ok = "unset"
    /\ strict_ok = "unset"
    /\ mismatches = <<>>
    /\ report_mismatches = DefaultReportMismatches
    /\ pc = "encrypt"

EncryptFile ==
    /\ pc = "encrypt"
    /\ encrypted_text' = encrypt_text(raw_text, shift1, shift2)
    /\ pc' = "decrypt"
    /\ UNCHANGED <<shift1, shift2, ch, out, op, fallback, raw_text, decrypted_text,
                   roundtrip_ok, strict_ok, mismatches, report_mismatches>>

DecryptFile ==
    /\ pc = "decrypt"
    /\ decrypted_text' = decrypt_text(encrypted_text, shift1, shift2)
    /\ pc' = "roundtrip"
    /\ UNCHANGED <<shift1, shift2, ch, out, op, fallback, raw_text, encrypted_text,
                   roundtrip_ok, strict_ok, mismatches, report_mismatches>>

VerifyRoundtrip ==
    /\ pc = "roundtrip"
    /\ roundtrip_ok' = verify_roundtrip(encrypted_text, shift1, shift2)
    /\ pc' = "strict"
    /\ UNCHANGED <<shift1, shift2, ch, out, op, fallback, raw_text, encrypted_text,
                   decrypted_text, strict_ok, mismatches, report_mismatches>>

VerifyStrict ==
    /\ pc = "strict"
    /\ LET r == verify_strict(raw_text, decrypted_text, report_mismatches)
       IN  /\ strict_ok' = r.ok
           /\ mismatches' = r.mismatches
    /\ pc' = "done"
    /\ UNCHANGED <<shift1, shift2, ch, out, op, fallback, raw_text, encrypted_text,
                   decrypted_text, roundtrip_ok, report_mismatches>>

Next == EncryptFile \/ DecryptFile \/ VerifyRoundtrip \/ VerifyStrict

Spec == Init /\ [][Next]_vars

----------------------------------------------------------------------------
(* verify_roundtrip called on an encrypted file of any content *)

InitRoundtrip ==
    /\ shift1 \in Shifts
    /\ shift2 \in Shifts
    /\ NoCharCall
    /\ raw_text = <<>>
    /\ encrypted_text \in Texts
    /\ decrypted_text = <<>>
    /\ roundtrip_ok = "unset"
    /\ strict_ok = "unset"
    /\ mismatches = <<>>
    /\ report_mismatches = DefaultReportMismatches
    /\ pc = "roundtrip"

NextRoundtrip == VerifyRoundtrip

SpecRoundtrip == InitRoundtrip /\ [][NextRoundtrip]_vars

----------------------------------------------------------------------------
(* verify_strict called on any two files with any non-negative cap *)

InitStrict ==
    /\ shift1 = 0
    /\ shift2 = 0
    /\ NoCharCall
    /\ raw_text \in StrictTexts
    /\ encrypted_text = <<>>
    /\ decrypted_text \in StrictTexts
    /\ roundtrip_ok = "unset"
    /\ strict_ok = "unset"
    /\ mismatches = <<>>
    /\ report_mismatches \in 0 .. MaxCap
    /\ pc = "strict"

NextStrict == VerifyStrict

SpecStrict == InitStrict /\ [][NextStrict]_vars

----------------------------------------------------------------------------
(* Vocabulary of the properties *)

LowerFirstHalf == ord_a .. ord_m
LowerSecondHalf == (ord_m + 1) .. ord_z
UpperFirstHalf == ord_A .. ord_M
UpperSecondHalf == (ord_M + 1) .. ord_Z
Halves == {LowerFirstHalf, LowerSecondHalf, UpperFirstHalf, UpperSecondHalf}

SameHalf(x, y) == \E h \in Halves : x \in h /\ y \in h

SameCase(x, y) ==
    \/ x \in LowerLetters /\ y \in LowerLetters
    \/ x \in UpperLetters /\ y \in UpperLetters

CaseAlphabet(c) == IF c \in LowerLetters THEN LowerLetters ELSE UpperLetters

Offset(c) == IF c \in LowerLetters THEN c - ord_a ELSE c - ord_A

\* the same-case letters that encrypt to c under the current shifts
Preimages(c) ==
    {y \in CaseAlphabet(c) : encrypt_character(y, shift1, shift2) = c}

\* ((x mod 26) + 26) mod 26
NonNegMod(x) == ((x % 26) + 26) % 26

\* the rule table, on zero-based offsets
RuleTable(c, s1, s2) ==
    IF c \in LowerFirstHalf
    THEN ord_a + NonNegMod(NonNegMod(Offset(c) + NonNegMod(s1 * s2)) + 26)
    ELSE IF c \in LowerSecondHalf
    THEN ord_a + NonNegMod(NonNegMod(Offset(c) - NonNegMod(s1 + s2)) + 26)
    ELSE IF c \in UpperFirstHalf
    THEN ord_A + NonNegMod(NonNegMod(Offset(c) - NonNegMod(s1)) + 26)
    ELSE ord_A + NonNegMod(NonNegMod(Offset(c) + NonNegMod(s2 * s2)) + 26)

\* x is a letter and another letter encrypts to the same character
Collides(x) ==
    /\ x \in Letters
    /\ \E y \in Letters \ {x} :
         encrypt_character(y, shift1, shift2) = encrypt_character(x, shift1, shift2)

\* x is a letter and a same-case letter of lower offset encrypts to the same character
HasLowerCollider(x) ==
    /\ x \in Letters
    /\ \E y \in CaseAlphabet(x) :
         /\ y < x
         /\ encrypt_character(y, shift1, shift2) = encrypt_character(x, shift1, shift2)

HasLengthMarker(ms) == \E k \in 1 .. Len(ms) : ms[k].kind = "length"

PositionRecords(ms) == Cardinality({k \in 1 .. Len(ms) : ms[k].kind = "position"})

----------------------------------------------------------------------------
(* C1: round-trip law, unconditional.  Whatever text the encrypted file     *)
(* holds and whatever the shifts, verify_roundtrip returns True, and every  *)
(* character c of it satisfies encrypt(decrypt(c)) = c.                     *)
C1_RoundTripUnconditional ==
    pc \in {"strict", "done"} =>
        /\ roundtrip_ok = TRUE
        /\ \A i \in 1 .. Len(encrypted_text) :
             encrypt_character(decrypt_character(encrypted_text[i], shift1, shift2),
                               shift1, shift2) = encrypted_text[i]

(* C2: encrypt_character is onto each case alphabet, so a decrypt of a     *)
(* letter always finds a candidate and never leaves through a fallback line *)
C2_FallbackUnreachable ==
    (op = "decrypt" /\ ch \in Letters) =>
        /\ Preimages(ch) # {}
        /\ fallback = FALSE

(* C3: tie-break.  When the letter handed to decrypt_character has a       *)
(* same-case preimage, the result is the preimage of lowest offset: it is  *)
(* of the same case, encrypts to the letter, and no same-case letter of    *)
(* smaller offset does.                                                     *)
C3_LowestOffsetPreimage ==
    (op = "decrypt" /\ ch \in Letters /\ Preimages(ch) # {}) =>
        /\ SameCase(out, ch)
        /\ encrypt_character(out, shift1, shift2) = ch
        /\ \A y \in CaseAlphabet(ch) :
             Offset(y) < Offset(out) => encrypt_character(y, shift1, shift2) # ch

\* a decrypt of a letter with at least two preimages returned one of them
C3_Witness ==
    /\ op = "decrypt"
    /\ ch \in Letters
    /\ Cardinality(Preimages(ch)) >= 2
    /\ out \in Preimages(ch)

(* C4: encrypt_character follows the rule table for every letter and all   *)
(* shifts, negative and large included; the result is a letter of the same *)
(* case; with shifts 2 and 3, 'H' gives 'F' and 'e' gives 'k'.              *)
C4_EncryptFollowsRuleTable ==
    (op = "encrypt" /\ ch \in Letters) =>
        /\ out = RuleTable(ch, shift1, shift2)
        /\ SameCase(out, ch)
        /\ (shift1 = 2 /\ shift2 = 3 /\ ch = 72) => out = 70
        /\ (shift1 = 2 /\ shift2 = 3 /\ ch = 101) => out = 107

\* an uppercase first-half letter encrypted with a negative and a large shift
C4_Witness ==
    /\ op = "encrypt"
    /\ ch \in UpperFirstHalf
    /\ shift1 < 0
    /\ shift2 = LargeShift
    /\ out \in UpperLetters

(* C5: a character outside a..z and A..Z comes back unchanged from both    *)
(* encrypt_character and decrypt_character, whatever the shifts.            *)
C5_NonLettersUnchanged ==
    (op \in {"encrypt", "decrypt"} /\ ch \notin Letters) => out = ch

\* '[' (between 'Z' and 'a') went through encrypt_character with non-zero shifts
C5_Witness ==
    /\ op = "encrypt"
    /\ ch = 91
    /\ out = 91
    /\ shift1 # 0
    /\ shift2 # 0

(* C6 as stated: when the plaintext holds a letter that collides with any  *)
(* other letter under encrypt_character, the strict check of the main      *)
(* program fails.                                                           *)
C6_StrictFailsOnAnyCollision ==
    (pc = "done" /\ \E i \in 1 .. Len(raw_text) : Collides(raw_text[i]))
        => strict_ok = FALSE

(* C6 amended: when the plaintext holds a letter x such that a same-case   *)
(* letter of lower offset encrypts to the same character as x, the strict  *)
(* check of the main program fails.                                         *)
C6_StrictFailsOnLowerCollider ==
    (pc = "done" /\ \E i \in 1 .. Len(raw_text) : HasLowerCollider(raw_text[i]))
        => strict_ok = FALSE

\* the main program finished on a plaintext with such a letter and reported a mismatch
C6_Witness ==
    /\ pc = "done"
    /\ \E i \in 1 .. Len(raw_text) : HasLowerCollider(raw_text[i])
    /\ strict_ok = FALSE
    /\ Len(mismatches) >= 1

(* C7: the list verify_strict returns holds at most report_mismatches      *)
(* records, the length marker included, and the marker is there exactly    *)
(* when the lengths differ and fewer than report_mismatches position       *)
(* records were collected.                                                  *)
C7_MismatchesWithinCap ==
    pc = "done" =>
        /\ Len(mismatches) <= report_mismatches
        /\ HasLengthMarker(mismatches) <=>
             (/\ Len(raw_text) # Len(decrypted_text)
              /\ PositionRecords(mismatches) < report_mismatches)

(* C8: with shifts 2 and 3, 'T' and 'E' both encrypt to 'C', and           *)
(* decrypt_character of 'C' returns 'E'.                                    *)
C8_CollisionOfTAndE ==
    (shift1 = 2 /\ shift2 = 3) =>
        /\ (op = "encrypt" /\ ch = 84) => out = 67
        /\ (op = "encrypt" /\ ch = 69) => out = 67
        /\ (op = "decrypt" /\ ch = 67) => out = 69
        /\ encrypt_character(84, shift1, shift2) = encrypt_character(69, shift1, shift2)

\* 'C' was decrypted to 'E' with shifts 2 and 3
C8_Witness ==
    /\ shift1 = 2
    /\ shift2 = 3
    /\ op = "decrypt"
    /\ ch = 67
    /\ out = 69

(* C9 as stated: there are shifts and two distinct letters of the same     *)
(* half that encrypt to the same character.                                 *)
C9_SameHalfCollisionExists ==
    op = "encrypt" =>
        \E s1 \in Shifts, s2 \in Shifts :
            \E h \in Halves : \E x \in h, y \in h :
                /\ x # y
                /\ encrypt_character(x, s1, s2) = encrypt_character(y, s1, s2)

(* C9 amended: no letter of the same half as the encrypted letter collides *)
(* with it; a letter that encrypts to the same character is of the same    *)
(* case and of the other half.                                              *)
C9_CollisionsOnlyAcrossHalves ==
    (op = "encrypt" /\ ch \in Letters) =>
        \A y \in Letters \ {ch} :
            encrypt_character(y, shift1, shift2) = out
                => (SameCase(y, ch) /\ ~SameHalf(y, ch))

\* a letter was encrypted to a character that a letter of the other half also gives
C9_Witness ==
    /\ op = "encrypt"
    /\ ch \in Letters
    /\ \E y \in CaseAlphabet(ch) :
         /\ ~SameHalf(y, ch)
         /\ encrypt_character(y, shift1, shift2) = out

(* C10: in the main program the round-trip verification always passes:     *)
(* the cipher text comes from encrypt_file, and for every character x of   *)
(* the raw text encrypt(decrypt(encrypt(x))) = encrypt(x).                  *)
C10_PipelineRoundTripPasses ==
    pc \in {"strict", "done"} =>
        /\ roundtrip_ok = TRUE
        /\ encrypted_text = encrypt_text(raw_text, shift1, shift2)
        /\ \A i \in 1 .. Len(raw_text) :
             encrypt_character(
                 decrypt_character(encrypt_character(raw_text[i], shift1, shift2),
                                   shift1, shift2),
                 shift1, shift2) = encrypt_character(raw_text[i], shift1, shift2)

\* the verification passed on a run whose decrypted text differs from the raw text
C10_Witness ==
    /\ pc = "done"
    /\ roundtrip_ok = TRUE
    /\ Len(raw_text) >= 1
    /\ decrypted_text # raw_text

====
